---- MODULE Spec2Model ----
(***************************************************************************)
(* Model of rspotify's identifier types (rspotify-model/src/idtypes.rs):   *)
(* the Id trait's parsing functions from_id, from_uri and from_id_or_uri,  *)
(* the rendering function uri, and the ten identifier types generated by   *)
(* define_idtypes!.                                                        *)
(*                                                                         *)
(* A text (Rust &str) is a sequence of characters, each character a        *)
(* one-character string.  An identifier is a record [ty, id]: the          *)
(* identifier type it was built as (borrowed, as TrackId, or owned, as     *)
(* TrackIdBuf) and the characters it holds.  A parse                       *)
(* result is [ok |-> TRUE, val |-> identifier] or                          *)
(* [ok |-> FALSE, err |-> IdError variant].                                *)
(*                                                                         *)
(* SpecOAuth models the token methods of the client (src/oauth2.rs): the   *)
(* stored token, the cache file and the methods that request, refresh and  *)
(* save a token.  SpecCache models the reading side: Token::is_expired     *)
(* and Spotify::get_cached_token against a clock.  SpecPages and           *)
(* SpecPagesOk model the two page_stream functions of src/util.rs over a   *)
(* paged source that may fail, and over one that never does.               *)
(***************************************************************************)
EXTENDS Integers, Sequences, FiniteSets, TLC

VARIABLES
    input,   \* the text handed to the parsing function
    target,  \* the identifier type the caller parses into (Self)
    op,      \* the operation applied last
    res,     \* its result
    prev,    \* the identifier the last call was made on
    out,     \* the text uri() or url() returned
    owned,   \* the owned buffer to_owned() made
    token,   \* the client's stored token (Spotify::token)
    cache,   \* the file at the client's cache path
    call,    \* the client method called last
    ret,     \* what it returned
    arg,     \* the refresh token it was called with
    oauth,   \* the client's OAuth configuration: its scope, if any
    clock,   \* the current time (Utc::now), in seconds
    got,     \* what get_cached_token returned last
    expired, \* what Token::is_expired returned last
    total,      \* the number of items the paged source holds
    page_size,  \* the page size both page_streams were made with
    offset,     \* PageIterator::offset
    done,       \* PageIterator::done
    front,      \* the ResultIter flat_map is draining
    yielded,    \* what the synchronous iterator has yielded
    requests,   \* the calls it made to the page function
    a_offset,   \* the asynchronous stream's offset
    a_pc,       \* where the asynchronous stream's body stands
    a_buf,      \* the items of its current page not yet yielded
    a_yielded,  \* what the asynchronous stream has yielded
    a_requests  \* the calls it made to the page function

idvars == <<input, target, op, res, prev, out, owned>>

oauthvars == <<token, cache, call, ret, arg>>

cachevars == <<oauth, clock, got, expired>>

syncvars == <<offset, done, front, yielded, requests>>

asyncvars == <<a_offset, a_pc, a_buf, a_yielded, a_requests>>

pagevars == <<total, page_size, syncvars, asyncvars>>

vars == <<idvars, oauthvars, cachevars, pagevars>>

----------------------------------------------------------------------------
(* Bounds *)

\* longest id segment / bare text drawn as an input
MaxIdLen == 2

----------------------------------------------------------------------------
(* Characters *)

Digits == {"0", "1", "2", "3", "4", "5", "6", "7", "8", "9"}

Lower == {"a", "b", "c", "d", "e", "f", "g", "h", "i", "j", "k", "l", "m",
          "n", "o", "p", "q", "r", "s", "t", "u", "v", "w", "x", "y", "z"}

Upper == {"A", "B", "C", "D", "E", "F", "G", "H", "I", "J", "K", "L", "M",
          "N", "O", "P", "Q", "R", "S", "T", "U", "V", "W", "X", "Y", "Z"}

\* mutant: letters only, digits rejected (char::is_ascii_alphabetic)
is_ascii_alphabetic(ch) == ch \in Upper \cup Lower

\* mutant: the Unicode test, letters outside ASCII accepted
\* (char::is_alphanumeric)
is_alphanumeric(ch) == ch \in Digits \cup Upper \cup Lower \cup {"é"}

\* char::is_ascii_alphanumeric: '0'..='9' | 'A'..='Z' | 'a'..='z'
is_ascii_alphanumeric(ch) == ch \in Digits \cup Upper \cup Lower

----------------------------------------------------------------------------
(* The Type enum (crate::Type): the kind registry *)

Types == {"Artist", "Album", "Track", "Playlist", "User", "Show", "Episode",
          "Unknown"}

\* Display for Type: the canonical lowercase name of a kind
TypeName(tpe) ==
    CASE tpe = "Artist"   -> <<"a", "r", "t", "i", "s", "t">>
      [] tpe = "Album"    -> <<"a", "l", "b", "u", "m">>
      [] tpe = "Track"    -> <<"t", "r", "a", "c", "k">>
      [] tpe = "Playlist" -> <<"p", "l", "a", "y", "l", "i", "s", "t">>
      [] tpe = "User"     -> <<"u", "s", "e", "r">>
      [] tpe = "Show"     -> <<"s", "h", "o", "w">>
      [] tpe = "Episode"  -> <<"e", "p", "i", "s", "o", "d", "e">>
      [] tpe = "Unknown"  -> <<"u", "n", "k", "n", "o", "w", "n">>

\* FromStr for Type: the kind a text names, exactly and case-sensitively
TypeParse(text) ==
    IF \E tpe \in Types : TypeName(tpe) = text
    THEN [ok |-> TRUE, val |-> CHOOSE tpe \in Types : TypeName(tpe) = text]
    ELSE [ok |-> FALSE]

----------------------------------------------------------------------------
(* The identifier types generated by define_idtypes! *)

ConcreteIds == {"ArtistId", "AlbumId", "TrackId", "PlaylistId", "UserId",
                "ShowId", "EpisodeId"}

GroupIds == {"AnyId", "PlayContextId", "PlayableId"}

IdTypes == ConcreteIds \cup GroupIds

\* $name_owned of each $name_borrowed
owned_of(ty) ==
    CASE ty = "ArtistId"      -> "ArtistIdBuf"
      [] ty = "AlbumId"       -> "AlbumIdBuf"
      [] ty = "TrackId"       -> "TrackIdBuf"
      [] ty = "PlaylistId"    -> "PlaylistIdBuf"
      [] ty = "UserId"        -> "UserIdBuf"
      [] ty = "ShowId"        -> "ShowIdBuf"
      [] ty = "EpisodeId"     -> "EpisodeIdBuf"
      [] ty = "AnyId"         -> "AnyIdBuf"
      [] ty = "PlayContextId" -> "PlayContextIdBuf"
      [] ty = "PlayableId"    -> "PlayableIdBuf"

OwnedIdTypes == {owned_of(ty) : ty \in IdTypes}

\* $name_borrowed of each $name_owned
borrowed_of(ty) == CHOOSE b \in IdTypes : owned_of(b) = ty

\* Id::TYPE of each identifier type, borrowed and owned
TYPE(ty) ==
    CASE ty \in {"ArtistId", "ArtistIdBuf"}           -> "Artist"
      [] ty \in {"AlbumId", "AlbumIdBuf"}             -> "Album"
      [] ty \in {"TrackId", "TrackIdBuf"}             -> "Track"
      [] ty \in {"PlaylistId", "PlaylistIdBuf"}       -> "Playlist"
      [] ty \in {"UserId", "UserIdBuf"}               -> "User"
      [] ty \in {"ShowId", "ShowIdBuf"}               -> "Show"
      [] ty \in {"EpisodeId", "EpisodeIdBuf"}         -> "Episode"
      [] ty \in {"AnyId", "AnyIdBuf"}                 -> "Unknown"
      [] ty \in {"PlayContextId", "PlayContextIdBuf"} -> "Unknown"
      [] ty \in {"PlayableId", "PlayableIdBuf"}       -> "Unknown"

IdErrors == {"InvalidPrefix", "InvalidFormat", "InvalidType", "InvalidId"}

Ok(v) == [ok |-> TRUE, val |-> v]

Err(e) == [ok |-> FALSE, err |-> e]

\* Id::from_id_unchecked: the text re-interpreted as an identifier of type ty
from_id_unchecked(ty, id) == [ty |-> ty, id |-> id]

\* Id::id
id(x) == x.id

----------------------------------------------------------------------------
(* Text helpers used by from_uri *)

spotify == <<"s", "p", "o", "t", "i", "f", "y">>

\* str::strip_prefix: the text after the prefix, or None
strip_prefix(s, prefix) ==
    IF Len(s) >= Len(prefix) /\ SubSeq(s, 1, Len(prefix)) = prefix
    THEN [some |-> TRUE, val |-> SubSeq(s, Len(prefix) + 1, Len(s))]
    ELSE [some |-> FALSE]

\* mutant: the last occurrence of either separator, whichever was chosen
rfind_either(s, ch) ==
    IF \E i \in 1..Len(s) : s[i] \in {"/", ":"}
    THEN [some |-> TRUE,
          val  |-> (CHOOSE i \in 1..Len(s) :
                       /\ s[i] \in {"/", ":"}
                       /\ \A j \in (i + 1)..Len(s) : s[j] \notin {"/", ":"}) - 1]
    ELSE [some |-> FALSE]

\* mutant: the first occurrence of ch (str::find)
find_first(s, ch) ==
    IF \E i \in 1..Len(s) : s[i] = ch
    THEN [some |-> TRUE,
          val  |-> (CHOOSE i \in 1..Len(s) :
                       s[i] = ch /\ \A j \in 1..(i - 1) : s[j] # ch) - 1]
    ELSE [some |-> FALSE]

\* str::rfind: the 0-based position of the last occurrence of ch, or None
rfind(s, ch) ==
    IF \E i \in 1..Len(s) : s[i] = ch
    THEN [some |-> TRUE,
          val  |-> (CHOOSE i \in 1..Len(s) :
                       s[i] = ch /\ \A j \in (i + 1)..Len(s) : s[j] # ch) - 1]
    ELSE [some |-> FALSE]

\* str::split_at: the first mid characters, and the rest
split_at(s, mid) == <<SubSeq(s, 1, mid), SubSeq(s, mid + 1, Len(s))>>

----------------------------------------------------------------------------
(* The parsing and rendering functions of the Id trait *)

\* mutant: the URL's separator before the id
uri_mixed(x) == spotify \o <<":">> \o TypeName(TYPE(x.ty)) \o <<"/">> \o id(x)

\* Id::uri
uri(x) == spotify \o <<":">> \o TypeName(TYPE(x.ty)) \o <<":">> \o id(x)

open_spotify_com == <<"h", "t", "t", "p", "s", ":", "/", "/", "o", "p", "e", "n", ".", "s", "p", "o", "t", "i", "f", "y", ".", "c", "o", "m", "/">>

\* mutant: the URI's separator before the id
url_colon(x) == open_spotify_com \o TypeName(TYPE(x.ty)) \o <<":">> \o id(x)

\* Id::url
url(x) == open_spotify_com \o TypeName(TYPE(x.ty)) \o <<"/">> \o id(x)

\* Id::from_id
from_id(ty, text) ==
    IF \A i \in 1..Len(text) : is_ascii_alphanumeric(text[i])
    THEN Ok(from_id_unchecked(ty, text))
    ELSE Err("InvalidId")

\* mutant: only the colon spelling
is_separator_colon(ch) == ch = ":"

\* mutant: any character that is not alphanumeric
is_separator_punct(ch) == ~is_ascii_alphanumeric(ch)

\* from_uri's separator test: ch == '/' || ch == ':'
is_separator(ch) == ch = "/" \/ ch = ":"

\* mutant: any recognized kind passes, the target's kind is not compared
type_matches_recognized(parsed, ty) == parsed.ok

\* from_uri's match guard on the parsed kind segment:
\* Ok(tpe) if tpe == Self::TYPE
type_matches(parsed, ty) == parsed.ok /\ parsed.val = TYPE(ty)

\* mutant: the id segment validated before the kind segment
from_uri_id_first(ty, text) ==
    LET stripped == strip_prefix(text, spotify) IN
    IF ~stripped.some THEN Err("InvalidPrefix")
    ELSE
    LET chars == stripped.val IN
    IF chars = <<>> \/ ~is_separator(chars[1]) THEN Err("InvalidPrefix")
    ELSE
    LET sep  == chars[1]
        rest == Tail(chars)
        mid  == rfind(rest, sep)
    IN
    IF ~mid.some THEN Err("InvalidFormat")
    ELSE
    LET parts  == split_at(rest, mid.val)
        tpe    == TypeParse(parts[1])
        parsed == from_id(ty, SubSeq(parts[2], 2, Len(parts[2])))
    IN
    IF ~parsed.ok THEN parsed
    ELSE IF type_matches(tpe, ty) THEN parsed
    ELSE Err("InvalidType")

\* Id::from_uri
from_uri(ty, text) ==
    LET stripped == strip_prefix(text, spotify) IN
    IF ~stripped.some THEN Err("InvalidPrefix")
    ELSE
    LET chars == stripped.val IN
    IF chars = <<>> \/ ~is_separator(chars[1]) THEN Err("InvalidPrefix")
    ELSE
    LET sep  == chars[1]
        rest == Tail(chars)
        mid  == rfind(rest, sep)
    IN
    IF ~mid.some THEN Err("InvalidFormat")
    ELSE
    LET parts == split_at(rest, mid.val)
        tpe   == TypeParse(parts[1])
    IN
    IF type_matches(tpe, ty)
    THEN from_id(ty, SubSeq(parts[2], 2, Len(parts[2])))
    ELSE Err("InvalidType")

\* mutant: the fallback to from_id taken on every error of from_uri
from_id_or_uri_any_error(ty, text) ==
    LET r == from_uri(ty, text) IN
    IF r.ok THEN r ELSE from_id(ty, text)

\* Id::from_id_or_uri
from_id_or_uri(ty, text) ==
    LET r == from_uri(ty, text) IN
    IF r.ok THEN r
    ELSE IF r.err = "InvalidPrefix" THEN from_id(ty, text)
    ELSE r

----------------------------------------------------------------------------
(* Conversions between identifier types *)

\* mutant: a track also converts to the playback-context group
ConversionsWithTrackContext ==
    {<<from, "AnyId">> : from \in IdTypes}
    \cup {<<"ArtistId", "PlayContextId">>, <<"AlbumId", "PlayContextId">>,
          <<"PlaylistId", "PlayContextId">>, <<"ShowId", "PlayContextId">>,
          <<"TrackId", "PlayableId">>, <<"EpisodeId", "PlayableId">>,
          <<"TrackId", "PlayContextId">>}

\* the AsRef implementations between borrowed identifier types, as pairs
\* <<from, into>>: AsRef<AnyId> for every type define_idtypes! generates
\* (AnyId itself included), and the define_one_way_conversions! list
Conversions ==
    {<<from, "AnyId">> : from \in IdTypes}
    \cup {<<"ArtistId", "PlayContextId">>, <<"AlbumId", "PlayContextId">>,
          <<"PlaylistId", "PlayContextId">>, <<"ShowId", "PlayContextId">>,
          <<"TrackId", "PlayableId">>, <<"EpisodeId", "PlayableId">>}

\* mutant: the Display text (the URI when the kind is known) handed over
\* instead of the id
as_ref_display(x, into) ==
    from_id_unchecked(into, IF TYPE(x.ty) = "Unknown" THEN id(x) ELSE uri(x))

\* AsRef<$into> for $from: $into::from_id_unchecked(self.id())
as_ref(x, into) == from_id_unchecked(into, id(x))

\* mutant: the Display text copied instead of the id
to_owned_display(x) ==
    [ty |-> owned_of(x.ty),
     id |-> IF TYPE(x.ty) = "Unknown" THEN id(x) ELSE uri(x)]

\* ToOwned for $name_borrowed: $name_owned(self.id().to_owned())
to_owned(x) == [ty |-> owned_of(x.ty), id |-> id(x)]

\* AsRef<$name_borrowed> for $name_owned (also Borrow and Deref):
\* $name_borrowed::from_id_unchecked(&self.0)
as_ref_borrowed(o) == from_id_unchecked(borrowed_of(o.ty), id(o))

\* the derived Deserialize of $name_owned(String): the string as it is
deserialize(ty, text) == Ok([ty |-> owned_of(ty), id |-> text])

\* the process ended (segmentation fault, abort or panic) instead of
\* returning
Aborted == [ok |-> FALSE, err |-> "Aborted"]

\* texts a String read from memory that holds no String may contain
GarbageTexts == {<<>>, <<"a">>, <<"\\">>}

\* FromStr for $name_owned: Self::from_id_or_uri(s).map(|id| id.to_owned())
\* with Self = $name_owned.  The set of possible results.  On success
\* from_id_unchecked of $name_owned has re-interpreted the &str as a
\* &$name_owned, a struct holding a String, and to_owned (Clone) reads
\* the text's bytes as that String's pointer, capacity and length:
\* undefined behaviour, which ends the process or returns an owned
\* identifier holding whatever the read found.
from_str(ty, text) ==
    LET r == from_id_or_uri(ty, text) IN
    IF ~r.ok THEN {r}
    ELSE {Aborted} \cup {Ok([ty |-> owned_of(ty), id |-> g]) : g \in GarbageTexts}

----------------------------------------------------------------------------
(* Inputs *)

\* the characters id segments and bare texts are drawn from: a lowercase
\* letter, an uppercase letter, a digit, both separators, a space and a
\* non-ASCII letter
IdAlphabet == {"a", "Z", "7", ":", "/", " ", "é"}

RECURSIVE SeqsUpTo(_, _)
SeqsUpTo(S, n) ==
    IF n = 0 THEN {<<>>}
    ELSE LET shorter == SeqsUpTo(S, n - 1) IN
         shorter \cup {Append(t, c) : t \in shorter, c \in S}

IdSegs == SeqsUpTo(IdAlphabet, MaxIdLen)

\* kind segments: the eight names of the registry, an unrecognized word, a
\* name in the wrong case and the empty segment
KindSegs == {TypeName(tpe) : tpe \in Types}
            \cup {<<"s", "o", "m", "e", "t", "h", "i", "n", "g">>, <<"T", "r", "a", "c", "k">>, <<>>}

\* "spotify", a separator, a kind segment, a second separator (possibly a
\* different one, or none) and an id segment
UriTexts ==
    {spotify \o <<s1>> \o k \o s2 \o i :
        s1 \in {":", "/"}, k \in KindSegs,
        s2 \in {<<":">>, <<"/">>, <<>>}, i \in IdSegs}

\* texts around the prefix test: a head, what follows it, and a tail
PrefixTexts ==
    {h \o m \o t :
        h \in {spotify, <<"s", "p", "o", "t", "i", "f">>, <<"S", "p", "o", "t", "i", "f", "y">>, <<"t", "r", "a", "c", "k">>, <<>>},
        m \in {<<>>, <<":">>, <<"/">>, <<"-">>, <<" ">>, <<"a">>},
        t \in {<<>>, <<"a">>, <<"t", "r", "a", "c", "k", ":", "a">>, <<"t", "r", "a", "c", "k", "/", "a">>}}

\* the constants of the module's unit tests
ID == <<"4", "i", "V", "5", "W", "9", "u", "Y", "E", "d", "Y", "U", "V", "a", "7", "9", "A", "x", "b", "7", "R", "h">>

URI == <<"s", "p", "o", "t", "i", "f", "y", ":", "t", "r", "a", "c", "k", ":">> \o ID

URI_SLASHES == <<"s", "p", "o", "t", "i", "f", "y", "/", "t", "r", "a", "c", "k", "/">> \o ID

URI_EMPTY == <<"s", "p", "o", "t", "i", "f", "y", ":", ":">> \o ID

URI_WRONGTYPE1 == <<"s", "p", "o", "t", "i", "f", "y", ":", "u", "n", "k", "n", "o", "w", "n", ":">> \o ID

URI_WRONGTYPE2 == <<"s", "p", "o", "t", "i", "f", "y", ":", "s", "o", "m", "e", "t", "h", "i", "n", "g", ":">> \o ID

URI_SHORT == <<"t", "r", "a", "c", "k", ":">> \o ID

URI_MIXED1 == <<"s", "p", "o", "t", "i", "f", "y", "/", "t", "r", "a", "c", "k", ":">> \o ID

URI_MIXED2 == <<"s", "p", "o", "t", "i", "f", "y", ":", "t", "r", "a", "c", "k", "/">> \o ID

TestTexts == {ID, URI, URI_SLASHES, URI_EMPTY, URI_WRONGTYPE1, URI_WRONGTYPE2,
              URI_SHORT, URI_MIXED1, URI_MIXED2}

\* URIs in which the separator occurs more than twice
LongTexts == {<<"s", "p", "o", "t", "i", "f", "y", ":", "t", "r", "a", "c", "k", ":", "a", "b", "c", ":", "d", "e", "f">>,
              <<"s", "p", "o", "t", "i", "f", "y", "/", "t", "r", "a", "c", "k", "/", "a", "b", "c", "/", "d", "e", "f">>}

Texts == IdSegs \cup UriTexts \cup PrefixTexts \cup TestTexts \cup LongTexts

----------------------------------------------------------------------------
(* Tokens and the cache file (src/oauth2.rs) *)

None == [some |-> FALSE]

NoText == <<>>

Some(v) == [some |-> TRUE, val |-> v]

\* latest clock reading (seconds) a token request is made at
MaxNow == 1

\* most bytes a failed write_all has written
MaxPartial == 2

\* a Token: access_token, expires_in, expires_at, refresh_token, scope
Token(access_token, expires_in, expires_at, refresh_token, scope) ==
    [access_token |-> access_token, expires_in |-> expires_in,
     expires_at |-> expires_at, refresh_token |-> refresh_token,
     scope |-> scope]

\* the file at a path: absent, or present with its content
NoFile == [exists |-> FALSE]

File(content) == [exists |-> TRUE, content |-> content]

DecimalDigits == <<"0", "1", "2", "3", "4", "5", "6", "7", "8", "9">>

\* an integer as serde_json writes it
RECURSIVE to_decimal(_)
to_decimal(n) ==
    IF n < 0 THEN <<"-">> \o to_decimal(-n)
    ELSE IF n < 10 THEN <<DecimalDigits[n + 1]>>
    ELSE to_decimal(n \div 10) \o <<DecimalDigits[(n % 10) + 1]>>

\* a string as serde_json writes it (no character drawn needs an escape)
json_string(text) == <<"\"">> \o text \o <<"\"">>

\* serde_json::to_string(&token): the derived Serialize of Token, fields
\* in declaration order, None as null
to_string(tok) ==
    <<"{", "\"", "a", "c", "c", "e", "s", "s", "_", "t", "o", "k", "e", "n", "\"", ":">> \o json_string(tok.access_token)
    \o <<",", "\"", "e", "x", "p", "i", "r", "e", "s", "_", "i", "n", "\"", ":">> \o to_decimal(tok.expires_in)
    \o <<",", "\"", "e", "x", "p", "i", "r", "e", "s", "_", "a", "t", "\"", ":">>
    \o (IF tok.expires_at.some THEN to_decimal(tok.expires_at.val)
        ELSE <<"n", "u", "l", "l">>)
    \o <<",", "\"", "r", "e", "f", "r", "e", "s", "h", "_", "t", "o", "k", "e", "n", "\"", ":">>
    \o (IF tok.refresh_token.some THEN json_string(tok.refresh_token.val)
        ELSE <<"n", "u", "l", "l">>)
    \o <<",", "\"", "s", "c", "o", "p", "e", "\"", ":">> \o json_string(tok.scope)
    \o <<"}">>

\* mutant: the length left as it is
set_len_skipped(content, n) == content

\* File::set_len for a length no longer than the content
set_len(content, n) == SubSeq(content, 1, n)

\* File::write_all at the start of the file: the data over the first
\* bytes, the bytes after them kept
write_all(content, data) ==
    data \o SubSeq(content, Len(data) + 1, Len(content))

IoOutcomes == {"ok", "open_err", "set_len_err", "write_err"}

\* the file system's answers to a write: an outcome and, for a failed
\* write_all, the number of bytes written before the failure
IoAnswers ==
    {<<io, 0>> : io \in IoOutcomes}
    \cup {<<"write_err", k>> : k \in 1..MaxPartial}

\* Token::write_cache: the result and the file afterwards, for each way
\* the file system can answer.  A failed write_all leaves any strict
\* prefix of the data (k bytes) in the truncated file.
write_cache(tok, file, io, k) ==
    LET token_info == to_string(tok)
        opened == IF file.exists THEN file.content ELSE <<>>
    IN
    IF io = "open_err" THEN [ret |-> "Err", file |-> file]
    ELSE IF io = "set_len_err" THEN [ret |-> "Err", file |-> File(opened)]
    ELSE IF io = "write_err"
    THEN [ret  |-> "Err",
          file |-> File(write_all(set_len(opened, 0),
                                  SubSeq(token_info, 1, k)))]
    ELSE [ret  |-> "Ok",
          file |-> File(write_all(set_len(opened, 0), token_info))]

\* Spotify::write_token_cache
write_token_cache(tok, file, io, k) ==
    IF tok.some THEN write_cache(tok.val, file, io, k)
    ELSE [ret |-> "Ok", file |-> file]

\* what the token endpoint can send back: a token without expires_at
AccessTokens == {<<"A">>, <<"B", "B">>}

ExpiresIn == {3600}

Scopes == {<<"s">>}

RefreshTokens == {<<"r">>, <<"q">>}

Responses ==
    {Token(a, e, None, None, sc) :
        a \in AccessTokens, e \in ExpiresIn, sc \in Scopes}

\* the ways a token request can end: no credentials, a transport error,
\* a body that is no Token, or a Token
FetchOutcomes == {"no_creds", "http_err", "bad_json", "ok"}

\* the token endpoint's answers: a failure, or a Token read at a time
FetchAnswers ==
    {<<outcome, CHOOSE r \in Responses : TRUE, 0>> :
        outcome \in FetchOutcomes \ {"ok"}}
    \cup {<<"ok", response, now>> :
            response \in Responses, now \in 0..MaxNow}

\* datetime_to_timestamp (src/util.rs)
datetime_to_timestamp(now, elapsed) == now + elapsed

\* Spotify::fetch_access_token: Err, or the Token of the response with
\* expires_at set
fetch_access_token(outcome, response, now) ==
    IF outcome # "ok" THEN [ok |-> FALSE]
    ELSE [ok  |-> TRUE,
          val |-> [response EXCEPT
                     !.expires_at =
                         Some(datetime_to_timestamp(now, response.expires_in))]]

\* mutant: the stored token dropped when the request fails
refresh_user_token_without_cache_clears(tok, refresh_token, outcome, response, now) ==
    LET fetched == fetch_access_token(outcome, response, now) IN
    IF ~fetched.ok THEN [ret |-> "Err", token |-> None]
    ELSE [ret   |-> "Ok",
          token |-> Some([fetched.val EXCEPT
                            !.refresh_token = Some(refresh_token)])]

\* Spotify::refresh_user_token_without_cache: the result and the stored
\* token afterwards
refresh_user_token_without_cache(tok, refresh_token, outcome, response, now) ==
    LET fetched == fetch_access_token(outcome, response, now) IN
    IF ~fetched.ok THEN [ret |-> "Err", token |-> tok]
    ELSE [ret   |-> "Ok",
          token |-> Some([fetched.val EXCEPT
                            !.refresh_token = Some(refresh_token)])]

\* Spotify::request_client_token_without_cache
request_client_token_without_cache(tok, outcome, response, now) ==
    LET fetched == fetch_access_token(outcome, response, now) IN
    IF ~fetched.ok THEN [ret |-> "Err", token |-> tok]
    ELSE [ret |-> "Ok", token |-> Some(fetched.val)]

\* Spotify::request_user_token_without_cache: get_oauth()? first
request_user_token_without_cache(tok, has_oauth, outcome, response, now) ==
    IF ~has_oauth THEN [ret |-> "Err", token |-> tok]
    ELSE LET fetched == fetch_access_token(outcome, response, now) IN
         IF ~fetched.ok THEN [ret |-> "Err", token |-> tok]
         ELSE [ret |-> "Ok", token |-> Some(fetched.val)]

\* the token of test_write_token, shortened
TestToken ==
    Token(<<"t", "e", "s", "t">>, 3600, Some(1515841743), Some(<<".", ".", ".">>), <<"s">>)

\* what the cache file may hold before the client runs: nothing, an empty
\* file, or an older and longer content
InitialFiles ==
    {NoFile, File(<<>>), File(to_string(TestToken) \o <<"\n">>)}

\* no identifier parsed yet
IdIdle ==
    /\ input = NoText
    /\ target = "TrackId"
    /\ op = "start"
    /\ res = [ok |-> FALSE, err |-> "NotCalled"]
    /\ prev = [ty |-> "None", id |-> <<>>]
    /\ out = NoText
    /\ owned = [ty |-> "None", id |-> <<>>]

\* a client without token, cache file or call made
OAuthIdle ==
    /\ token = None
    /\ cache = NoFile
    /\ call = "none"
    /\ ret = "none"
    /\ arg = NoText

\* no OAuth configuration, nothing read from the cache yet
CacheIdle ==
    /\ oauth = None
    /\ clock = 0
    /\ got = None
    /\ expired = None

\* both page_streams just made, over an empty source
PagesIdle ==
    /\ total = 0
    /\ page_size = 1
    /\ offset = 0
    /\ done = FALSE
    /\ front = None
    /\ yielded = <<>>
    /\ requests = <<>>
    /\ a_offset = 0
    /\ a_pc = "loop"
    /\ a_buf = <<>>
    /\ a_yielded = <<>>
    /\ a_requests = <<>>

\* the OAuth configurations of the client: none, or one with a scope
OAuthConfigs == {None, Some(<<"s">>)}

InitOAuth ==
    /\ token \in {None, Some(TestToken)}
    /\ cache \in InitialFiles
    /\ call = "none"
    /\ ret = "none"
    /\ arg = NoText
    /\ oauth \in OAuthConfigs
    /\ clock = 0
    /\ got = None
    /\ expired = None
    /\ IdIdle
    /\ PagesIdle

\* no method of the client is under way: a method borrows the client
\* (&self, &mut self) until it returns
Idle == ret # "Pending"

\* self.write_token_cache()
WriteTokenCache ==
    /\ Idle
    /\ \E io \in IoAnswers :
        LET r == write_token_cache(token, cache, io[1], io[2]) IN
        /\ call' = "write_token_cache"
        /\ arg' = NoText
        /\ ret' = r.ret
        /\ cache' = r.file
        /\ UNCHANGED <<token, idvars, cachevars, pagevars>>

\* self.refresh_user_token_without_cache(refresh_token)
RefreshUserTokenWithoutCache ==
    /\ Idle
    /\ \E rt \in RefreshTokens, f \in FetchAnswers :
        LET r == refresh_user_token_without_cache(token, rt, f[1], f[2],
                                                  f[3]) IN
        /\ call' = "refresh_user_token_without_cache"
        /\ arg' = rt
        /\ ret' = r.ret
        /\ token' = r.token
        /\ UNCHANGED <<cache, idvars, cachevars, pagevars>>

\* self.refresh_user_token(refresh_token):
\* self.refresh_user_token_without_cache(refresh_token).await?; Ok(())
RefreshUserToken ==
    /\ Idle
    /\ \E rt \in RefreshTokens, f \in FetchAnswers :
        LET r == refresh_user_token_without_cache(token, rt, f[1], f[2],
                                                  f[3]) IN
        /\ call' = "refresh_user_token"
        /\ arg' = rt
        /\ ret' = r.ret
        /\ token' = r.token
        /\ UNCHANGED <<cache, idvars, cachevars, pagevars>>

\* self.request_client_token_without_cache()
RequestClientTokenWithoutCache ==
    /\ Idle
    /\ \E f \in FetchAnswers :
        LET r == request_client_token_without_cache(token, f[1], f[2],
                                                    f[3]) IN
        /\ call' = "request_client_token_without_cache"
        /\ arg' = NoText
        /\ ret' = r.ret
        /\ token' = r.token
        /\ UNCHANGED <<cache, idvars, cachevars, pagevars>>

\* self.request_client_token():
\* self.request_client_token_without_cache().await?; self.write_token_cache()
RequestClientToken ==
    /\ Idle
    /\ \E f \in FetchAnswers :
        LET r == request_client_token_without_cache(token, f[1], f[2],
                                                    f[3]) IN
        /\ call' = "request_client_token"
        /\ arg' = NoText
        /\ token' = r.token
        /\ IF r.ret = "Err"
           THEN ret' = "Err" /\ cache' = cache
           ELSE \E io \in IoAnswers :
                   LET w == write_token_cache(r.token, cache, io[1], io[2]) IN
                   ret' = w.ret /\ cache' = w.file
        /\ UNCHANGED <<idvars, cachevars, pagevars>>

\* self.request_user_token_without_cache(code)
RequestUserTokenWithoutCache ==
    /\ Idle
    /\ \E f \in FetchAnswers :
        LET r == request_user_token_without_cache(token, oauth.some, f[1],
                                                  f[2], f[3]) IN
        /\ call' = "request_user_token_without_cache"
        /\ arg' = NoText
        /\ ret' = r.ret
        /\ token' = r.token
        /\ UNCHANGED <<cache, idvars, cachevars, pagevars>>

\* self.request_user_token(code):
\* self.request_user_token_without_cache(code).await?; self.write_token_cache()
RequestUserToken ==
    /\ Idle
    /\ \E f \in FetchAnswers :
        LET r == request_user_token_without_cache(token, oauth.some, f[1],
                                                  f[2], f[3]) IN
        /\ call' = "request_user_token"
        /\ arg' = NoText
        /\ token' = r.token
        /\ IF r.ret = "Err"
           THEN ret' = "Err" /\ cache' = cache
           ELSE \E io \in IoAnswers :
                   LET w == write_token_cache(r.token, cache, io[1], io[2]) IN
                   ret' = w.ret /\ cache' = w.file
        /\ UNCHANGED <<idvars, cachevars, pagevars>>

----------------------------------------------------------------------------
(* Reading the cached token (src/oauth2.rs): Token::is_expired,            *)
(* is_scope_subset, TokenBuilder::from_cache and                           *)
(* Spotify::get_cached_token                                               *)

\* latest clock reading (seconds) of the client that reads the cache
MaxClock == 4

\* mutant: no buffer time
is_expired_no_buffer(tok, now) ==
    IF tok.expires_at.some THEN now > tok.expires_at.val
    ELSE TRUE

\* Token::is_expired at the time now = Utc::now().timestamp(); the
\* subtraction is an i64 one, and no expires_at drawn is within 10 of
\* i64::MIN
is_expired(tok, now) ==
    IF tok.expires_at.some THEN now > tok.expires_at.val - 10
    ELSE TRUE

\* char::is_whitespace, for the characters drawn
Whitespace == {" ", "\n", "\t", "\r"}

\* str::split_whitespace: the maximal runs of non-whitespace, in order
RECURSIVE split_whitespace(_)
split_whitespace(s) ==
    IF s = <<>> THEN <<>>
    ELSE IF s[1] \in Whitespace THEN split_whitespace(Tail(s))
    ELSE LET stops == {i \in 1..Len(s) : s[i] \in Whitespace}
             n == IF stops = {} THEN Len(s) + 1
                  ELSE CHOOSE i \in stops : \A j \in stops : i <= j
         IN <<SubSeq(s, 1, n - 1)>> \o split_whitespace(SubSeq(s, n, Len(s)))

\* HashSet::from_iter
from_iter(v) == {v[i] : i \in 1..Len(v)}

\* mutant: the subset test the other way round
is_scope_subset_reversed(needle_scope, haystack_scope) ==
    from_iter(split_whitespace(haystack_scope))
        \subseteq from_iter(split_whitespace(needle_scope))

\* is_scope_subset
is_scope_subset(needle_scope, haystack_scope) ==
    LET needle_set == from_iter(split_whitespace(needle_scope))
        haystack_set == from_iter(split_whitespace(haystack_scope))
    IN needle_set \subseteq haystack_set

\* serde_json::from_str::<Token>, as a reader over the text.  A reader
\* state is [ok, rest, tok]: whether the text read so far fits, the text
\* left and the fields read.  The pieces are read in the order Serialize
\* writes them, whitespace is skipped before each, and no text drawn holds
\* an escape.
Unread == [ok |-> FALSE]

RECURSIVE skip_whitespace(_)
skip_whitespace(s) ==
    IF s # <<>> /\ s[1] \in Whitespace THEN skip_whitespace(Tail(s))
    ELSE s

\* the text s past the literal lit
expect(s, tok, lit) ==
    IF Len(s) >= Len(lit) /\ SubSeq(s, 1, Len(lit)) = lit
    THEN [ok |-> TRUE, rest |-> SubSeq(s, Len(lit) + 1, Len(s)), tok |-> tok]
    ELSE Unread

\* the value a decimal digit stands for
digit_value(ch) == CHOOSE d \in 0..9 : DecimalDigits[d + 1] = ch

RECURSIVE from_decimal(_)
from_decimal(ds) ==
    IF Len(ds) = 1 THEN digit_value(ds[1])
    ELSE from_decimal(SubSeq(ds, 1, Len(ds) - 1)) * 10
             + digit_value(ds[Len(ds)])

\* null read into an Option field
read_null(s, tok, field) ==
    expect(s, [tok EXCEPT ![field] = None], <<"n", "u", "l", "l">>)

\* a JSON string read into the field
read_string(s, tok, field, optional) ==
    LET closes == {j \in 2..Len(s) : s[j] = "\""} IN
    IF s # <<>> /\ s[1] = "\"" /\ closes # {}
    THEN LET j == CHOOSE j \in closes : \A k \in closes : j <= k
             v == SubSeq(s, 2, j - 1)
         IN [ok   |-> TRUE,
             rest |-> SubSeq(s, j + 1, Len(s)),
             tok  |-> [tok EXCEPT ![field] = IF optional THEN Some(v) ELSE v]]
    ELSE IF optional THEN read_null(s, tok, field)
    ELSE Unread

\* a JSON integer read into the field: no leading zero; the field that is
\* not optional is the u32 one and takes no sign
read_integer(s, tok, field, optional) ==
    LET neg == s # <<>> /\ s[1] = "-"
        body == IF neg THEN Tail(s) ELSE s
        others == {i \in 1..Len(body) :
                      body[i] \notin from_iter(DecimalDigits)}
        n == IF others = {} THEN Len(body)
             ELSE (CHOOSE i \in others : \A j \in others : i <= j) - 1
    IN
    IF n = 0 THEN (IF optional THEN read_null(s, tok, field) ELSE Unread)
    ELSE IF (n > 1 /\ body[1] = "0") \/ (neg /\ ~optional) THEN Unread
    ELSE LET v == IF neg THEN 0 - from_decimal(SubSeq(body, 1, n))
                  ELSE from_decimal(SubSeq(body, 1, n))
         IN [ok   |-> TRUE,
             rest |-> SubSeq(body, n + 1, Len(body)),
             tok  |-> [tok EXCEPT ![field] = IF optional THEN Some(v) ELSE v]]

\* a piece of the text of a Token
Lit(text) ==
    [kind |-> "lit", text |-> text, field |-> "", optional |-> FALSE]

Key(name) ==
    [kind |-> "lit", text |-> <<"\"">> \o name \o <<"\"">>,
     field |-> "", optional |-> FALSE]

Value(kind, field, optional) ==
    [kind |-> kind, text |-> <<>>, field |-> field, optional |-> optional]

\* the derived Deserialize of Token: access_token: String,
\* expires_in: u32, expires_at: Option<i64>,
\* refresh_token: Option<String>, scope: String; then the end of the text
TokenPieces ==
    <<Lit(<<"{">>),
      Key(<<"a", "c", "c", "e", "s", "s", "_", "t", "o", "k", "e", "n">>),
      Lit(<<":">>), Value("string", "access_token", FALSE),
      Lit(<<",">>),
      Key(<<"e", "x", "p", "i", "r", "e", "s", "_", "i", "n">>),
      Lit(<<":">>), Value("integer", "expires_in", FALSE),
      Lit(<<",">>),
      Key(<<"e", "x", "p", "i", "r", "e", "s", "_", "a", "t">>),
      Lit(<<":">>), Value("integer", "expires_at", TRUE),
      Lit(<<",">>),
      Key(<<"r", "e", "f", "r", "e", "s", "h", "_", "t", "o", "k", "e", "n">>),
      Lit(<<":">>), Value("string", "refresh_token", TRUE),
      Lit(<<",">>),
      Key(<<"s", "c", "o", "p", "e">>),
      Lit(<<":">>), Value("string", "scope", FALSE),
      Lit(<<"}">>),
      Value("end", "", FALSE)>>

\* one piece read from the text s
read_piece(piece, s, tok) ==
    IF piece.kind = "lit" THEN expect(s, tok, piece.text)
    ELSE IF piece.kind = "string"
    THEN read_string(s, tok, piece.field, piece.optional)
    ELSE IF piece.kind = "integer"
    THEN read_integer(s, tok, piece.field, piece.optional)
    ELSE IF s = <<>> THEN [ok |-> TRUE, rest |-> s, tok |-> tok]
    ELSE Unread

\* the pieces from the k-th on read from the state st
RECURSIVE read_pieces(_, _)
read_pieces(k, st) ==
    IF ~st.ok \/ k > Len(TokenPieces) THEN st
    ELSE CHOOSE after \in
             {read_pieces(k + 1, read_piece(TokenPieces[k], s, st.tok)) :
                 s \in {skip_whitespace(st.rest)}} : TRUE

\* serde_json::from_str::<Token>(&tok_str): Ok(token) or Err
serde_json_from_str(tok_str) ==
    LET blank == Token(<<>>, 0, None, None, <<>>)
        read == read_pieces(1, [ok |-> TRUE, rest |-> tok_str, tok |-> blank])
    IN
    IF read.ok THEN [ok |-> TRUE, val |-> read.tok]
    ELSE [ok |-> FALSE]

\* TokenBuilder::from_cache(path).build().ok(): the token of the file, or
\* None when the file cannot be opened or holds no Token (the default
\* builder lacks the required fields, so build() fails)
from_cache(file) ==
    IF ~file.exists THEN None
    ELSE LET tok == serde_json_from_str(file.content) IN
         IF tok.ok THEN Some(tok.val) ELSE None

\* Spotify::get_cached_token; oa is self.get_oauth().ok()
get_cached_token(file, oa, now) ==
    LET tok == from_cache(file) IN
    IF ~tok.some THEN None
    ELSE IF ~oa.some THEN None
    ELSE IF ~is_scope_subset(oa.val, tok.val.scope)
            \/ is_expired(tok.val, now)
    THEN None
    ELSE Some(tok.val)

\* Spotify::get_code_from_user (feature cli): whether a code is
\* obtained.  get_authorize_url needs the OAuth configuration and the
\* credentials; the line read from the standard input holds a code or
\* does not (Err(CLI))
get_code_from_user(oa, has_creds, entered) ==
    oa.some /\ has_creds /\ entered

\* self.prompt_for_user_token_without_cache():
\* let code = self.get_code_from_user()?;
\* self.request_user_token_without_cache(&code).await?; Ok(())
PromptForUserTokenWithoutCache ==
    /\ Idle
    /\ \E entered \in BOOLEAN, f \in FetchAnswers :
          LET code == get_code_from_user(oauth, f[1] # "no_creds", entered)
              r == request_user_token_without_cache(token, oauth.some, f[1],
                                                    f[2], f[3])
          IN /\ call' = "prompt_for_user_token_without_cache"
             /\ arg' = NoText
             /\ ret' = IF code THEN r.ret ELSE "Err"
             /\ token' = IF code THEN r.token ELSE token
    /\ UNCHANGED <<cache, idvars, cachevars, pagevars>>

\* self.prompt_for_user_token(), up to its return or to the await of the
\* token request: self.token = self.get_cached_token().await; with no
\* usable cached token, get_code_from_user()? and the request sent
PromptForUserToken ==
    /\ Idle
    /\ \E now \in 0..MaxNow, has_creds \in BOOLEAN, entered \in BOOLEAN :
          LET cached == get_cached_token(cache, oauth, now) IN
          /\ call' = "prompt_for_user_token"
          /\ arg' = NoText
          /\ token' = cached
          /\ ret' = IF cached.some THEN "Ok"
                    ELSE IF get_code_from_user(oauth, has_creds, entered)
                    THEN "Pending"
                    ELSE "Err"
    /\ UNCHANGED <<cache, idvars, cachevars, pagevars>>

\* self.prompt_for_user_token(), from the answer of the token endpoint on:
\* the rest of self.request_user_token(&code).await?; Ok(())
PromptForUserTokenResume ==
    /\ call = "prompt_for_user_token"
    /\ ret = "Pending"
    /\ \E f \in {a \in FetchAnswers : a[1] # "no_creds"} :
          LET r == request_user_token_without_cache(token, oauth.some, f[1],
                                                    f[2], f[3]) IN
          /\ token' = r.token
          /\ IF r.ret = "Err"
             THEN ret' = "Err" /\ cache' = cache
             ELSE \E io \in IoAnswers :
                     LET w == write_token_cache(r.token, cache, io[1], io[2]) IN
                     ret' = w.ret /\ cache' = w.file
    /\ UNCHANGED <<call, arg, idvars, cachevars, pagevars>>

NextOAuth ==
    \/ WriteTokenCache \/ RefreshUserTokenWithoutCache \/ RefreshUserToken
    \/ RequestClientTokenWithoutCache \/ RequestClientToken
    \/ RequestUserTokenWithoutCache \/ RequestUserToken
    \/ PromptForUserTokenWithoutCache
    \/ PromptForUserToken \/ PromptForUserTokenResume

SpecOAuth == InitOAuth /\ [][NextOAuth]_vars

\* expires_at of the tokens the client may hold: none, one already inside
\* the buffer time at clock 0, one that enters it while the clock runs
ExpiresAt == {None, Some(5), Some(12)}

\* scopes of those tokens
TokenScopes == {<<>>, <<"s">>, <<"s", " ", "t">>}

\* scopes the OAuth configuration may require
RequiredScopes ==
    {<<>>, <<"s">>, <<"t", " ", " ", "s">>, <<"s", " ", "u">>, <<"s", "t">>}

CachedTokens ==
    {Token(<<"A">>, 3600, ea, rt, sc) :
        ea \in ExpiresAt, rt \in {None, Some(<<"r">>)}, sc \in TokenScopes}

InitCache ==
    /\ token \in {None} \cup {Some(t) : t \in CachedTokens}
    /\ cache \in InitialFiles
    /\ call = "none"
    /\ ret = "none"
    /\ arg = NoText
    /\ oauth \in {None} \cup {Some(sc) : sc \in RequiredScopes}
    /\ clock = 0
    /\ got = None
    /\ expired = None
    /\ IdIdle
    /\ PagesIdle

\* time passes
Tick ==
    /\ clock < MaxClock
    /\ clock' = clock + 1
    /\ call' = "tick"
    /\ ret' = "none"
    /\ got' = None
    /\ UNCHANGED <<token, cache, arg, oauth, expired, idvars, pagevars>>

\* self.token's is_expired()
IsExpired ==
    /\ token.some
    /\ expired' = Some(is_expired(token.val, clock))
    /\ call' = "is_expired"
    /\ ret' = "none"
    /\ UNCHANGED <<token, cache, arg, oauth, clock, got, idvars, pagevars>>

\* self.get_cached_token()
GetCachedToken ==
    /\ got' = get_cached_token(cache, oauth, clock)
    /\ call' = "get_cached_token"
    /\ ret' = "none"
    /\ UNCHANGED <<token, cache, arg, oauth, clock, expired, idvars, pagevars>>

NextCache ==
    \/ Tick \/ IsExpired \/ GetCachedToken \/ WriteTokenCache

SpecCache == InitCache /\ [][NextCache]_vars

----------------------------------------------------------------------------
(* Paging (src/util.rs): the synchronous page_stream, made of              *)
(* PageIterator, flat_map and ResultIter, and the asynchronous             *)
(* page_stream, a stream! body.  Both run over the same paged source: the  *)
(* items 1..total, handed out page by page.                                *)

\* most items the paged source holds
MaxItems == 4

\* largest page size
MaxPageSize == 3

\* most failed calls of the page function in one run of the iterator
MaxErrs == 2

\* the page function f(limit, offset) of a source that holds the items
\* 1..n: the items after the offset, limit at most, with next present
\* while items remain after the page
page_of(n, limit, off) ==
    LET last == IF off + limit < n THEN off + limit ELSE n IN
    [items |-> IF off < last THEN [i \in 1..(last - off) |-> off + i]
               ELSE <<>>,
     next  |-> IF off + limit < n THEN Some(off + limit) ELSE None]

\* the ways a call of the page function can end
PageOutcomes == {"ok", "err"}

\* f(limit, offset) with its outcome: Ok(page) or Err(e)
call_f(outcome, n, limit, off) ==
    IF outcome = "ok" THEN Ok(page_of(n, limit, off)) ELSE Err("E")

\* the record of one call of the page function: its arguments and what
\* came back
Request(limit, off, result) ==
    [limit    |-> limit,
     offset   |-> off,
     ok       |-> result.ok,
     returned |-> IF result.ok THEN Len(result.val.items) ELSE 0,
     more     |-> result.ok /\ result.val.next.some]

\* mutant: the offset moved on by the page size
PageIterator_next_by_page_size(off, dn, ps, result) ==
    IF dn
    THEN [item |-> None, offset |-> off, done |-> dn, request |-> None]
    ELSE LET rq == Some(Request(ps, off, result)) IN
         IF result.ok /\ result.val.items = <<>>
         THEN [item |-> None, offset |-> off, done |-> TRUE, request |-> rq]
         ELSE IF result.ok
         THEN [item |-> Some(result), offset |-> off + ps,
               done |-> dn, request |-> rq]
         ELSE [item |-> Some(result), offset |-> off, done |-> dn,
               request |-> rq]

\* PageIterator::next; result is what (self.f)(self.page_size,
\* self.offset) answers if it is called.  Gives the item, the fields
\* afterwards and the call made, if any.
PageIterator_next(off, dn, ps, result) ==
    IF dn
    THEN [item |-> None, offset |-> off, done |-> dn, request |-> None]
    ELSE LET rq == Some(Request(ps, off, result)) IN
         IF result.ok /\ result.val.items = <<>>
         THEN [item |-> None, offset |-> off, done |-> TRUE, request |-> rq]
         ELSE IF result.ok
         THEN [item |-> Some(result),
               offset |-> off + Len(result.val.items),
               done |-> dn, request |-> rq]
         ELSE [item |-> Some(result), offset |-> off, done |-> dn,
               request |-> rq]

\* ResultIter::new
ResultIter_new(result) ==
    IF result.ok THEN [inner |-> Some(result.val), err |-> None]
    ELSE [inner |-> None, err |-> Some(result.err)]

\* mutant: the error left in place
ResultIter_next_keeps_err(it) ==
    IF it.err.some
    THEN [item |-> Some(Err(it.err.val)), it |-> it]
    ELSE IF it.inner.some /\ it.inner.val # <<>>
    THEN [item |-> Some(Ok(Head(it.inner.val))),
          it   |-> [it EXCEPT !.inner = Some(Tail(it.inner.val))]]
    ELSE [item |-> None, it |-> it]

\* ResultIter::next: the item and the iterator afterwards
ResultIter_next(it) ==
    IF it.err.some
    THEN [item |-> Some(Err(it.err.val)), it |-> [it EXCEPT !.err = None]]
    ELSE IF it.inner.some /\ it.inner.val # <<>>
    THEN [item |-> Some(Ok(Head(it.inner.val))),
          it   |-> [it EXCEPT !.inner = Some(Tail(it.inner.val))]]
    ELSE [item |-> None, it |-> it]

\* result.map(|page| page.items.into_iter())
map_items(result) ==
    IF result.ok THEN Ok(result.val.items) ELSE result

\* next() of pages.flat_map(..): the front ResultIter is drained first;
\* when it is empty the PageIterator is asked for the next one.  A
\* ResultIter the PageIterator hands over holds an error or a non-empty
\* page, so its first next() yields.
flat_map_next(off, dn, frnt, ps, result) ==
    LET first == IF frnt.some THEN ResultIter_next(frnt.val)
                 ELSE [item |-> None]
    IN
    IF first.item.some
    THEN [item |-> first.item, offset |-> off, done |-> dn,
          front |-> Some(first.it), request |-> None]
    ELSE LET outer == PageIterator_next(off, dn, ps, result) IN
         IF ~outer.item.some
         THEN [item |-> None, offset |-> outer.offset, done |-> outer.done,
               front |-> None, request |-> outer.request]
         ELSE LET second ==
                      ResultIter_next(ResultIter_new(map_items(outer.item.val)))
              IN [item |-> second.item, offset |-> outer.offset,
                  done |-> outer.done, front |-> Some(second.it),
                  request |-> outer.request]

\* mutant: the loop left before the items of the last page are yielded
stream_poll_break_first(off, pc, buf, ps, result) ==
    IF pc = "ended"
    THEN [item |-> None, offset |-> off, pc |-> pc, buf |-> buf,
          request |-> None]
    ELSE IF buf # <<>>
    THEN [item |-> Some(Ok(Head(buf))), offset |-> off, pc |-> pc,
          buf |-> Tail(buf), request |-> None]
    ELSE IF pc = "last"
    THEN [item |-> None, offset |-> off, pc |-> "ended", buf |-> buf,
          request |-> None]
    ELSE LET rq == Some(Request(ps, off, result)) IN
         IF ~result.ok
         THEN [item |-> Some(result), offset |-> off, pc |-> "ended",
               buf |-> buf, request |-> rq]
         ELSE LET page == result.val
                  off2 == off + Len(page.items)
              IN
              IF ~page.next.some
              THEN [item |-> None, offset |-> off2, pc |-> "ended",
                    buf |-> buf, request |-> rq]
              ELSE IF page.items # <<>>
              THEN [item |-> Some(Ok(Head(page.items))), offset |-> off2,
                    pc |-> "loop", buf |-> Tail(page.items), request |-> rq]
              ELSE [item |-> None, offset |-> off2, pc |-> "loop",
                    buf |-> buf, request |-> rq]

\* one poll of the stream! body of the asynchronous page_stream, up to its
\* next yield or its end.  pc is where the body stands: "loop" (more
\* pages to ask for), "last" (inside the page whose next is absent) or
\* "ended".  An empty page with next present makes the body ask again:
\* the poll goes on in the next step.
stream_poll(off, pc, buf, ps, result) ==
    IF pc = "ended"
    THEN [item |-> None, offset |-> off, pc |-> pc, buf |-> buf,
          request |-> None]
    ELSE IF buf # <<>>
    THEN [item |-> Some(Ok(Head(buf))), offset |-> off, pc |-> pc,
          buf |-> Tail(buf), request |-> None]
    ELSE IF pc = "last"
    THEN [item |-> None, offset |-> off, pc |-> "ended", buf |-> buf,
          request |-> None]
    ELSE LET rq == Some(Request(ps, off, result)) IN
         IF ~result.ok
         THEN [item |-> Some(result), offset |-> off, pc |-> "ended",
               buf |-> buf, request |-> rq]
         ELSE LET page == result.val
                  off2 == off + Len(page.items)
                  pc2 == IF page.next.some THEN "loop" ELSE "last"
              IN
              IF page.items # <<>>
              THEN [item |-> Some(Ok(Head(page.items))), offset |-> off2,
                    pc |-> pc2, buf |-> Tail(page.items), request |-> rq]
              ELSE [item |-> None, offset |-> off2,
                    pc |-> IF page.next.some THEN "loop" ELSE "ended",
                    buf |-> buf, request |-> rq]

\* the failed calls in a record of calls
Failures(log) == {k \in 1..Len(log) : ~log[k].ok}

\* page_stream(f, page_size) of both kinds, over a source of 0..MaxItems
\* items
InitPages ==
    /\ total \in 0..MaxItems
    /\ page_size \in 1..MaxPageSize
    /\ offset = 0
    /\ done = FALSE
    /\ front = None
    /\ yielded = <<>>
    /\ requests = <<>>
    /\ a_offset = 0
    /\ a_pc = "loop"
    /\ a_buf = <<>>
    /\ a_yielded = <<>>
    /\ a_requests = <<>>
    /\ IdIdle
    /\ OAuthIdle
    /\ CacheIdle

\* one next() on the synchronous page_stream; outcome is how the page
\* function ends if it is called
SyncNext(outcome) ==
    /\ outcome = "err" => Cardinality(Failures(requests)) < MaxErrs
    /\ LET r == flat_map_next(offset, done, front, page_size,
                              call_f(outcome, total, page_size, offset))
       IN /\ offset' = r.offset
          /\ done' = r.done
          /\ front' = r.front
          /\ yielded' = IF r.item.some THEN Append(yielded, r.item.val)
                        ELSE yielded
          /\ requests' = IF r.request.some
                         THEN Append(requests, r.request.val)
                         ELSE requests
    /\ UNCHANGED <<total, page_size, asyncvars, idvars, oauthvars, cachevars>>

\* one poll of the asynchronous page_stream
AsyncNext(outcome) ==
    /\ LET r == stream_poll(a_offset, a_pc, a_buf, page_size,
                            call_f(outcome, total, page_size, a_offset))
       IN /\ a_offset' = r.offset
          /\ a_pc' = r.pc
          /\ a_buf' = r.buf
          /\ a_yielded' = IF r.item.some THEN Append(a_yielded, r.item.val)
                          ELSE a_yielded
          /\ a_requests' = IF r.request.some
                           THEN Append(a_requests, r.request.val)
                           ELSE a_requests
    /\ UNCHANGED <<total, page_size, syncvars, idvars, oauthvars, cachevars>>

\* a source that may fail
NextPages ==
    \E outcome \in PageOutcomes : SyncNext(outcome) \/ AsyncNext(outcome)

SpecPages == InitPages /\ [][NextPages]_vars

\* a source that never fails, and a caller that goes on pulling
NextPagesOk ==
    SyncNext("ok") \/ AsyncNext("ok")

SpecPagesOk ==
    /\ InitPages
    /\ [][NextPagesOk]_vars
    /\ WF_vars(SyncNext("ok"))
    /\ WF_vars(AsyncNext("ok"))

----------------------------------------------------------------------------
(* The state machine: one construction of an identifier from a drawn text, *)
(* then calls on the identifier it produced: rendering, a round trip       *)
(* through uri() and from_uri(), widening conversions, a copy into an      *)
(* owned buffer and the view of that buffer                                *)

ParseOps == {"from_id", "from_uri", "from_id_or_uri"}

NoResult == [ok |-> FALSE, err |-> "NotCalled"]

NoId == [ty |-> "None", id |-> <<>>]

Init ==
    /\ input \in Texts
    /\ target \in IdTypes
    /\ op = "start"
    /\ res = NoResult
    /\ prev = NoId
    /\ out = NoText
    /\ owned = NoId
    /\ OAuthIdle
    /\ CacheIdle
    /\ PagesIdle

\* Self::from_id(input)
FromId ==
    /\ op = "start"
    /\ op' = "from_id"
    /\ res' = from_id(target, input)
    /\ UNCHANGED <<oauthvars, cachevars, pagevars, input, target, prev, out, owned>>

\* Self::from_uri(input)
FromUri ==
    /\ op = "start"
    /\ op' = "from_uri"
    /\ res' = from_uri(target, input)
    /\ UNCHANGED <<oauthvars, cachevars, pagevars, input, target, prev, out, owned>>

\* Self::from_id_or_uri(input)
FromIdOrUri ==
    /\ op = "start"
    /\ op' = "from_id_or_uri"
    /\ res' = from_id_or_uri(target, input)
    /\ UNCHANGED <<oauthvars, cachevars, pagevars, input, target, prev, out, owned>>

\* unsafe Self::from_id_unchecked(input)
FromIdUnchecked ==
    /\ op = "start"
    /\ op' = "from_id_unchecked"
    /\ res' = Ok(from_id_unchecked(target, input))
    /\ UNCHANGED <<oauthvars, cachevars, pagevars, input, target, prev, out, owned>>

\* input.parse::<$name_owned>()
FromStr ==
    /\ op = "start"
    /\ op' = "from_str"
    /\ res' \in from_str(target, input)
    /\ UNCHANGED <<oauthvars, cachevars, pagevars, input, target, prev, out, owned>>

\* an owned identifier deserialized from the string input
Deserialize ==
    /\ op = "start"
    /\ op' = "deserialize"
    /\ res' = deserialize(target, input)
    /\ UNCHANGED <<oauthvars, cachevars, pagevars, input, target, prev, out, owned>>

\* Self::from_uri(&x.uri()) for the identifier x a parsing call returned
RoundTrip ==
    /\ op \in ParseOps
    /\ res.ok
    /\ op' = "round_trip"
    /\ prev' = res.val
    /\ input' = uri(res.val)
    /\ res' = from_uri(target, uri(res.val))
    /\ UNCHANGED <<oauthvars, cachevars, pagevars, target, out, owned>>

\* x.uri() on the identifier held
UriCall ==
    /\ op \in ParseOps \cup {"as_ref", "from_str"}
    /\ res.ok
    /\ op' = "uri"
    /\ out' = uri(res.val)
    /\ prev' = res.val
    /\ UNCHANGED <<oauthvars, cachevars, pagevars, input, target, res, owned>>

\* x.url() on the identifier held
UrlCall ==
    /\ op \in ParseOps \cup {"as_ref", "from_str"}
    /\ res.ok
    /\ op' = "url"
    /\ out' = url(res.val)
    /\ prev' = res.val
    /\ UNCHANGED <<oauthvars, cachevars, pagevars, input, target, res, owned>>

\* x.as_ref() into a broader identifier type, on a parsed identifier or
\* on the result of an earlier conversion
AsRef ==
    /\ op \in ParseOps \cup {"as_ref"}
    /\ res.ok
    /\ \E c \in Conversions :
          /\ c[1] = res.val.ty
          /\ res' = Ok(as_ref(res.val, c[2]))
    /\ op' = "as_ref"
    /\ prev' = res.val
    /\ UNCHANGED <<oauthvars, cachevars, pagevars, input, target, out, owned>>

\* b.to_owned() on the borrowed identifier b held
ToOwned ==
    /\ op \in ParseOps \cup {"as_ref"}
    /\ res.ok
    /\ op' = "to_owned"
    /\ prev' = res.val
    /\ owned' = to_owned(res.val)
    /\ UNCHANGED <<oauthvars, cachevars, pagevars, input, target, res, out>>

\* the borrow of the parsed text ends and the text is overwritten; the
\* owned buffer stays
SourceChanged ==
    /\ op = "to_owned"
    /\ op' = "source_changed"
    /\ input' \in {<<>>, <<"Z">>} \ {input}
    /\ res' = NoResult
    /\ UNCHANGED <<oauthvars, cachevars, pagevars, target, prev, out, owned>>

\* the owned buffer viewed as a borrowed identifier (as_ref, borrow, deref)
AsRefOwned ==
    /\ op \in {"to_owned", "source_changed"}
    /\ op' = "as_ref_owned"
    /\ res' = Ok(as_ref_borrowed(owned))
    /\ UNCHANGED <<oauthvars, cachevars, pagevars, input, target, prev, out, owned>>

Next ==
    \/ FromId \/ FromUri \/ FromIdOrUri \/ FromIdUnchecked \/ FromStr
    \/ Deserialize \/ RoundTrip \/ UriCall \/ UrlCall \/ AsRef \/ ToOwned
    \/ SourceChanged \/ AsRefOwned

Spec == Init /\ [][Next]_vars

TypeOK ==
    /\ target \in IdTypes
    /\ op \in ParseOps \cup {"start", "round_trip", "from_id_unchecked",
                            "from_str", "deserialize", "uri", "url", "as_ref",
                            "to_owned", "source_changed", "as_ref_owned"}
    /\ res.ok \in BOOLEAN
    /\ res.ok => res.val.ty \in IdTypes \cup OwnedIdTypes
    /\ ~res.ok => res.err \in IdErrors \cup {"NotCalled", "Aborted"}
    /\ owned.ty \in OwnedIdTypes \cup {"None"}

----------------------------------------------------------------------------
(* Vocabulary of the properties *)

AsciiAlnum == Digits \cup Upper \cup Lower

OnlyAsciiAlnum(t) == \A i \in 1..Len(t) : t[i] \in AsciiAlnum

\* a valid id as the documentation defines it: non-empty and alphanumeric
ValidId(t) == t # <<>> /\ OnlyAsciiAlnum(t)

Separators == {":", "/"}

\* the text is "spotify" immediately followed by the separator s
HasUriPrefix(t, s) ==
    Len(t) >= 8 /\ SubSeq(t, 1, 7) = spotify /\ t[8] = s

\* the ways to read t as "spotify" s kind s id, with s a separator that
\* does not occur in id: triples <<s, kind, id>> (at most one)
UriParts(t) ==
    {<<s, SubSeq(t, 9, n - 1), SubSeq(t, n + 1, Len(t))>> :
        <<s, n>> \in {<<s, n>> \in Separators \X (9..Len(t)) :
                        /\ HasUriPrefix(t, s)
                        /\ t[n] = s
                        /\ \A j \in (n + 1)..Len(t) : t[j] # s}}

RecognizedNames == {TypeName(tpe) : tpe \in Types}

Failed(r, e) == ~r.ok /\ r.err = e

Succeeded(r, ty, i) == r.ok /\ r.val.ty = ty /\ r.val.id = i

----------------------------------------------------------------------------
(* Properties *)

\* C1: from_id on a text made only of ASCII alphanumeric characters
\* succeeds, for every target type, and the identifier's id() is the text.
C1_FromIdAcceptsAlnum ==
    (op = "from_id" /\ OnlyAsciiAlnum(input))
        => Succeeded(res, target, input)

C1_Witness ==
    op = "from_id" /\ target = "PlayableId" /\ input = ID
    /\ res.ok /\ id(res.val) = ID

\* C2: from_id on a text with at least one character that is not ASCII
\* alphanumeric fails with InvalidId.
C2_FromIdRejectsOthers ==
    (op = "from_id" /\ ~OnlyAsciiAlnum(input)) => Failed(res, "InvalidId")

C2_Witness ==
    op = "from_id" /\ input = <<"a", "é">> /\ Failed(res, "InvalidId")

\* C3: no parsing operation yields an identifier whose id() is empty:
\* from_id("") and from_uri on a URI with an empty id segment fail.
C3_NoEmptyId ==
    (op \in ParseOps /\ res.ok) => id(res.val) # <<>>

\* C4: for a concrete target K and a valid id i, from_uri succeeds on
\* "spotify:" name(K) ":" i and on "spotify/" name(K) "/" i, with id() = i.
C4_FromUriBothSpellings ==
    (op = "from_uri" /\ target \in ConcreteIds)
        => \A p \in UriParts(input) :
              (p[2] = TypeName(TYPE(target)) /\ ValidId(p[3]))
                  => Succeeded(res, target, p[3])

C4_Witness ==
    op = "from_uri" /\ target = "TrackId" /\ input = URI_SLASHES
    /\ Succeeded(res, "TrackId", ID)

\* C5: round trip: parsing the uri() of a successfully parsed identifier
\* with the same target succeeds and gives the same type and the same id.
C5_RoundTrip ==
    op = "round_trip" => (res.ok /\ res.val = prev)

C5_Witness ==
    op = "round_trip" /\ target = "AnyId" /\ prev.id = ID
    /\ res.ok /\ res.val = prev

\* C6: for a group target, from_uri on "spotify" s k s i with a valid id
\* succeeds exactly when k is a recognized kind name, and fails with
\* InvalidType otherwise.
C6_GroupAcceptsRecognized ==
    (op = "from_uri" /\ target \in GroupIds)
        => \A p \in UriParts(input) :
              ValidId(p[3])
                  => IF p[2] \in RecognizedNames
                     THEN Succeeded(res, target, p[3])
                     ELSE Failed(res, "InvalidType")

\* C7: for a concrete target K, from_uri on a URI that passes the prefix
\* and format steps fails with InvalidType when the kind segment is not
\* name(K).
C7_ConcreteRejectsOtherKinds ==
    (op = "from_uri" /\ target \in ConcreteIds)
        => \A p \in UriParts(input) :
              p[2] # TypeName(TYPE(target)) => Failed(res, "InvalidType")

C7_Witness ==
    op = "from_uri" /\ target = "TrackId" /\ input = URI_WRONGTYPE1
    /\ Failed(res, "InvalidType")

\* C8: from_uri fails with InvalidPrefix exactly when the text does not
\* start with "spotify" followed by ':' or '/'.
C8_InvalidPrefixExactly ==
    op = "from_uri"
        => (Failed(res, "InvalidPrefix")
               <=> ~\E s \in Separators : HasUriPrefix(input, s))

C8_Witness ==
    op = "from_uri" /\ input = URI_SHORT /\ Failed(res, "InvalidPrefix")

\* C9: from_uri fails with InvalidFormat when the separator chosen after
\* "spotify" does not occur again, mixed-separator URIs included.
C9_InvalidFormat ==
    op = "from_uri"
        => \A s \in Separators :
              (HasUriPrefix(input, s) /\ \A j \in 9..Len(input) : input[j] # s)
                  => Failed(res, "InvalidFormat")

C9_Witness ==
    op = "from_uri" /\ target = "AnyId" /\ input = URI_MIXED1
    /\ Failed(res, "InvalidFormat")

\* C10: from_id_or_uri is from_id when from_uri fails with InvalidPrefix
\* and from_uri in every other case; a text in URI form never gets its
\* error from the fallback, and "track:<id>" yields InvalidId.
C10_FallbackOnlyOnPrefix ==
    op = "from_id_or_uri"
        => /\ res = IF Failed(from_uri(target, input), "InvalidPrefix")
                    THEN from_id(target, input)
                    ELSE from_uri(target, input)
           /\ (\E s \in Separators : HasUriPrefix(input, s))
                  => res = from_uri(target, input)
           /\ input = URI_SHORT => Failed(res, "InvalidId")

C10_Witness ==
    op = "from_id_or_uri" /\ target = "TrackId" /\ input = URI_MIXED2
    /\ Failed(res, "InvalidFormat")

\* C11: uri() is "spotify:" n ":" id() and url() is
\* "https://open.spotify.com/" n "/" id(), n the lowercase name of the
\* identifier's own kind tag; neither changes the identifier.
CanonicalName(ty) ==
    CASE ty \in {"ArtistId", "ArtistIdBuf"} -> <<"a", "r", "t", "i", "s", "t">>
      [] ty \in {"AlbumId", "AlbumIdBuf"} -> <<"a", "l", "b", "u", "m">>
      [] ty \in {"TrackId", "TrackIdBuf"} -> <<"t", "r", "a", "c", "k">>
      [] ty \in {"PlaylistId", "PlaylistIdBuf"} -> <<"p", "l", "a", "y", "l", "i", "s", "t">>
      [] ty \in {"UserId", "UserIdBuf"} -> <<"u", "s", "e", "r">>
      [] ty \in {"ShowId", "ShowIdBuf"} -> <<"s", "h", "o", "w">>
      [] ty \in {"EpisodeId", "EpisodeIdBuf"} -> <<"e", "p", "i", "s", "o", "d", "e">>
      [] OTHER -> <<"u", "n", "k", "n", "o", "w", "n">>

C11_UriUrlFormat ==
    /\ op = "uri"
          => /\ out = <<"s", "p", "o", "t", "i", "f", "y", ":">> \o CanonicalName(prev.ty)
                          \o <<":">> \o prev.id
             /\ res = Ok(prev)
    /\ op = "url"
          => /\ out = <<"h", "t", "t", "p", "s", ":", "/", "/", "o", "p", "e", "n", ".", "s", "p", "o", "t", "i", "f", "y", ".", "c", "o", "m", "/">>
                          \o CanonicalName(prev.ty) \o <<"/">> \o prev.id
             /\ res = Ok(prev)

C11_Witness ==
    /\ op = "url" /\ prev = [ty |-> "EpisodeId", id |-> ID]
    /\ out = <<"h", "t", "t", "p", "s", ":", "/", "/", "o", "p", "e", "n", ".", "s", "p", "o", "t", "i", "f", "y", ".", "c", "o", "m", "/", "e", "p", "i", "s", "o", "d", "e", "/">> \o ID

\* C12: a widening conversion, alone or in a chain, never fails and keeps
\* id(); the identifier then renders with the wildcard tag's name.
LongestAlnumSuffix(t) ==
    LET n == CHOOSE n \in 0..Len(t) :
                /\ \A j \in (Len(t) - n + 1)..Len(t) : t[j] \in AsciiAlnum
                /\ n < Len(t) => t[Len(t) - n] \notin AsciiAlnum
    IN SubSeq(t, Len(t) - n + 1, Len(t))

C12_WideningKeepsId ==
    op = "as_ref"
        => /\ res.ok
           /\ id(res.val) = id(prev)
           /\ id(res.val) = LongestAlnumSuffix(input)
           /\ res.val.ty \in GroupIds
           /\ uri(res.val) = <<"s", "p", "o", "t", "i", "f", "y", ":", "u", "n", "k", "n", "o", "w", "n", ":">> \o id(prev)
           /\ url(res.val) = <<"h", "t", "t", "p", "s", ":", "/", "/", "o", "p", "e", "n", ".", "s", "p", "o", "t", "i", "f", "y", ".", "c", "o", "m", "/", "u", "n", "k", "n", "o", "w", "n", "/">> \o id(prev)

C12_Witness ==
    /\ op = "as_ref" /\ target = "TrackId" /\ input = URI
    /\ prev = [ty |-> "PlayableId", id |-> ID]
    /\ res = Ok([ty |-> "AnyId", id |-> ID])

\* C13 as stated: the conversions are exactly Artist, Album, Playlist,
\* Show -> PlayContextId; Track, Episode -> PlayableId; the seven concrete
\* types and the two narrower groups -> AnyId.
StatedConversions ==
    {<<from, "PlayContextId">> :
        from \in {"ArtistId", "AlbumId", "PlaylistId", "ShowId"}}
    \cup {<<from, "PlayableId">> : from \in {"TrackId", "EpisodeId"}}
    \cup {<<from, "AnyId">> :
            from \in ConcreteIds \cup {"PlayContextId", "PlayableId"}}

C13_ExactlyStated ==
    op = "as_ref" => <<prev.ty, res.val.ty>> \in StatedConversions

\* C13 amended: the conversions are the stated ones and the identity
\* conversion AnyId -> AnyId; none leads to a concrete type, so every
\* identifier reached from one parsed as K has kind K or the wildcard kind.
C13_Conversions ==
    /\ Conversions = StatedConversions \cup {<<"AnyId", "AnyId">>}
    /\ op = "as_ref"
          => /\ <<prev.ty, res.val.ty>>
                    \in StatedConversions \cup {<<"AnyId", "AnyId">>}
             /\ res.val.ty \notin ConcreteIds
             /\ TYPE(res.val.ty) \in {TYPE(target), "Unknown"}
    /\ op \in {"to_owned", "source_changed", "as_ref_owned"}
          => TYPE(owned.ty) \in {TYPE(target), "Unknown"}

C13_Witness ==
    /\ op = "as_ref" /\ target = "ShowId"
    /\ prev.ty = "PlayContextId" /\ res.ok /\ res.val.ty = "AnyId"

\* C14: every identifier a public construction path yields has an id()
\* of ASCII alphanumeric characters only.
C14_AlwaysValidated ==
    /\ res.ok => OnlyAsciiAlnum(id(res.val))
    /\ owned # NoId => OnlyAsciiAlnum(id(owned))

\* C17: from_uri reports the first failing check in the order prefix,
\* format, kind, id: a wrong or unrecognized kind segment with an invalid
\* id segment gives InvalidType, and InvalidId is returned only when the
\* prefix, the format and the kind pass.
KindPasses(k, ty) ==
    k \in RecognizedNames /\ (ty \in ConcreteIds => k = CanonicalName(ty))

C17_CheckOrder ==
    op = "from_uri"
        => /\ \A p \in UriParts(input) :
                 (~KindPasses(p[2], target) /\ ~OnlyAsciiAlnum(p[3]))
                     => Failed(res, "InvalidType")
           /\ Failed(res, "InvalidId")
                 => \E p \in UriParts(input) :
                       KindPasses(p[2], target) /\ ~OnlyAsciiAlnum(p[3])

C17_Witness ==
    /\ op = "from_uri" /\ target = "TrackId"
    /\ input = <<"s", "p", "o", "t", "i", "f", "y", ":", "a", "l", "b", "u", "m", ":", "a", " ">>
    /\ Failed(res, "InvalidType")

\* C18: from_uri splits at the last occurrence of the separator: when it
\* occurs more than once after "spotify" and the separator, the kind
\* segment holds a separator and the result is InvalidType for every target.
C18_SplitAtLast ==
    op = "from_uri"
        => \A s \in Separators :
              (/\ HasUriPrefix(input, s)
               /\ Cardinality({j \in 9..Len(input) : input[j] = s}) >= 2)
                  => Failed(res, "InvalidType")

C18_Witness ==
    /\ op = "from_uri" /\ target = "TrackId"
    /\ input = <<"s", "p", "o", "t", "i", "f", "y", ":", "t", "r", "a", "c", "k", ":", "a", "b", "c", ":", "d", "e", "f">>
    /\ Failed(res, "InvalidType")

\* C19: FromStr on an owned type gives what from_id_or_uri on the borrowed
\* type followed by a copy gives: the same error, or an owned identifier
\* of the same kind with the same id().
C19_FromStrAsParseThenCopy ==
    op = "from_str"
        => LET r == from_id_or_uri(target, input) IN
           res = IF r.ok THEN Ok(to_owned(r.val)) ELSE r

\* C20: the borrowed view of b.to_owned() equals b, and the owned buffer
\* keeps b's id() whatever happens to the text b was parsed from.
C20_OwnedRoundTrip ==
    /\ op \in {"to_owned", "source_changed", "as_ref_owned"}
          => /\ id(owned) = id(prev)
             /\ owned.ty = owned_of(prev.ty)
    /\ op = "as_ref_owned" => res = Ok(prev)

C20_Witness ==
    /\ op = "as_ref_owned" /\ input = <<>>
    /\ prev = [ty |-> "TrackId", id |-> ID]
    /\ owned = [ty |-> "TrackIdBuf", id |-> ID]
    /\ res = Ok(prev)

\* C15: after a successful refresh_user_token the cache file holds the
\* serialization of the token just stored.
C15_RefreshSavesCache ==
    (call = "refresh_user_token" /\ ret = "Ok")
        => (token.some /\ cache = File(to_string(token.val)))

\* C16: a successful write_token_cache leaves exactly the serialization
\* of the stored token in the cache file, whatever it held before, and
\* leaves the file untouched when no token is stored.
C16_WriteTokenCache ==
    [][(call' = "write_token_cache" /\ ret' = "Ok")
          => cache' = IF token.some THEN File(to_string(token.val))
                      ELSE cache]_vars

C16_Witness ==
    /\ call = "write_token_cache" /\ ret = "Ok"
    /\ token = Some(TestToken)
    /\ cache = File(<<"{", "\"", "a", "c", "c", "e", "s", "s", "_", "t", "o", "k", "e", "n", "\"", ":", "\"", "t", "e", "s", "t", "\"", ",", "\"", "e", "x", "p", "i", "r", "e", "s", "_", "i", "n", "\"", ":", "3", "6", "0", "0", ",", "\"", "e", "x", "p", "i", "r", "e", "s", "_", "a", "t", "\"", ":", "1", "5", "1", "5", "8", "4", "1", "7", "4", "3", ",", "\"", "r", "e", "f", "r", "e", "s", "h", "_", "t", "o", "k", "e", "n", "\"", ":", "\"", ".", ".", ".", "\"", ",", "\"", "s", "c", "o", "p", "e", "\"", ":", "\"", "s", "\"", "}">>)

\* the methods that request a token and do not write the cache file
WithoutCacheCalls ==
    {"refresh_user_token_without_cache", "request_client_token_without_cache",
     "request_user_token_without_cache"}

\* C26: a *_without_cache method whose token request fails (no
\* credentials, no OAuth configuration, transport error, unparsable
\* response) returns the error and leaves the stored token and the cache
\* file as they were; a successful refresh_user_token_without_cache stores
\* a token whose refresh_token is the argument.
C26_FailedRequestFrame ==
    [][/\ (call' \in WithoutCacheCalls /\ ret' = "Err")
            => (token' = token /\ cache' = cache)
       /\ (call' = "refresh_user_token_without_cache" /\ ret' = "Ok")
            => (/\ token'.some
                /\ token'.val.refresh_token = Some(arg')
                /\ cache' = cache)]_vars

\* a refresh failed on a client that holds a token and has a cache file
C26_Witness ==
    /\ call = "refresh_user_token_without_cache"
    /\ ret = "Err"
    /\ token = Some(TestToken)
    /\ cache.exists
    /\ arg = <<"q">>

\* the whitespace-separated words of a text: the pieces that hold no
\* whitespace and have whitespace or an end of the text on both sides
Words(s) ==
    {SubSeq(s, p[1], p[2]) :
        p \in {q \in (1..Len(s)) \X (1..Len(s)) :
                 /\ q[1] <= q[2]
                 /\ \A k \in q[1]..q[2] : s[k] \notin Whitespace
                 /\ q[1] = 1 \/ s[q[1] - 1] \in Whitespace
                 /\ q[2] = Len(s) \/ s[q[2] + 1] \in Whitespace}}

\* the file holds the serialized token t, followed by whitespace at most
Holds(file, t) ==
    /\ file.exists
    /\ \E n \in 0..Len(file.content) :
          /\ SubSeq(file.content, 1, n) = to_string(t)
          /\ \A k \in (n + 1)..Len(file.content) :
                file.content[k] \in Whitespace

\* the tokens a cache file of the model can hold
KnownTokens == CachedTokens \cup {TestToken}

\* t is usable by a client with the OAuth configuration oa at the time now
Usable(t, oa, now) ==
    /\ oa.some
    /\ \A w \in Words(oa.val) : w \in Words(t.scope)
    /\ t.expires_at.some
    /\ now + 10 <= t.expires_at.val

\* C21: get_cached_token returns a token only if the cache file holds one,
\* every whitespace-separated scope of the client's OAuth configuration is
\* among the token's scopes and the token is not expired; it returns that
\* token then, and None in every other case (no or unparsable file, no
\* OAuth configuration, a missing scope, expired).
C21_CachedToken ==
    call = "get_cached_token"
        => LET usable == {t \in KnownTokens :
                             Holds(cache, t) /\ Usable(t, oauth, clock)}
           IN IF usable = {} THEN got = None
              ELSE got.some /\ got.val \in usable

\* a token whose scopes cover the required ones, written in another order
\* and with more whitespace, was returned after the clock had moved
C21_Witness ==
    /\ call = "get_cached_token"
    /\ got.some
    /\ got.val.scope = <<"s", " ", "t">>
    /\ oauth = Some(<<"t", " ", " ", "s">>)
    /\ clock > 0

\* C22: is_expired is true when expires_at is absent or the current time is
\* strictly greater than expires_at - 10 and false otherwise, so a token
\* once reported expired is reported expired at every later time.
C22_IsExpired ==
    [][/\ call' = "is_expired"
            => expired' = Some(\/ ~token'.val.expires_at.some
                               \/ clock' >= token'.val.expires_at.val - 9)
       /\ (expired.some /\ expired.val /\ expired'.some) => expired'.val]_vars

\* the token with expires_at 12 is reported expired at time 3, the first
\* time inside the 10 seconds before 12
C22_Witness ==
    /\ call = "is_expired"
    /\ token.some
    /\ token.val.expires_at = Some(12)
    /\ clock = 3
    /\ expired = Some(TRUE)

\* the number of items the first k calls of a record returned
RECURSIVE Received(_, _)
Received(log, k) ==
    IF k = 0 THEN 0 ELSE Received(log, k - 1) + log[k].returned

\* the last call of a record
LastCall(log) == log[Len(log)]

\* the items 1..n, each as an Ok item
AllItems(n) == [i \in 1..n |-> Ok(i)]

\* the Err items of what an iterator yielded
ErrItems(ys) == {i \in 1..Len(ys) : ~ys[i].ok}

\* the synchronous iterator over a source that never fails: every call has
\* the page size and the number of items received before it, the items
\* come out in order, it is done exactly when the last call returned an
\* empty page, no call before returned one, and at the end every item has
\* been yielded once
C23_Safety ==
    /\ \A k \in 1..Len(requests) :
          /\ requests[k].limit = page_size
          /\ requests[k].offset = Received(requests, k - 1)
    /\ \A i \in 1..Len(yielded) : yielded[i] = Ok(i)
    /\ done <=> (requests # <<>> /\ LastCall(requests).returned = 0)
    /\ \A k \in 1..(Len(requests) - 1) : requests[k].returned > 0
    /\ done => yielded = AllItems(total)

\* once done, a pull calls the page function no more and yields nothing
C23_Step ==
    done => (requests' = requests /\ yielded' = yielded /\ done')

\* C23: the synchronous page iterator calls the page function with the
\* fixed page_size and an offset equal to the number of items received so
\* far, yields the items of each page in order, stops at the first empty
\* page and never calls the page function again; over a source that never
\* fails it terminates having yielded every item exactly once.
C23_SyncPages ==
    /\ []C23_Safety
    /\ [][C23_Step]_vars
    /\ <>done

\* four items in pages of two: two full pages, then the empty page
C23_Witness ==
    /\ done
    /\ total = 4
    /\ page_size = 2
    /\ Len(requests) = 3
    /\ requests[3].offset = 4
    /\ Len(yielded) = 4

\* both page_streams over the same source that never fails: when both
\* have ended they have yielded the same; the asynchronous one leaves its
\* loop exactly at the first page whose next is absent, the synchronous
\* one at the first empty page
C24_Safety ==
    /\ (done /\ a_pc = "ended") => a_yielded = yielded
    /\ \A i \in 1..Len(a_yielded) : a_yielded[i] = Ok(i)
    /\ a_pc # "loop" <=> (a_requests # <<>> /\ ~LastCall(a_requests).more)
    /\ \A k \in 1..(Len(a_requests) - 1) : a_requests[k].more
    /\ a_pc = "ended" => (a_buf = <<>> /\ a_yielded = AllItems(total))
    /\ done <=> (requests # <<>> /\ LastCall(requests).returned = 0)
    /\ \A k \in 1..(Len(requests) - 1) : requests[k].returned > 0

\* C24: over the same error-free source, whose next is absent exactly on
\* the last non-empty page and which returns an empty page past the end,
\* the synchronous and the asynchronous page_stream yield the same items
\* in the same order and both terminate, the asynchronous one at the first
\* page whose next is absent, the synchronous one at the first empty page.
C24_SameItems ==
    /\ []C24_Safety
    /\ <>[](done /\ a_pc = "ended")

\* three items in pages of two: the asynchronous stream ends after two
\* calls, the synchronous iterator after a third one
C24_Witness ==
    /\ done
    /\ a_pc = "ended"
    /\ total = 3
    /\ page_size = 2
    /\ Len(a_requests) = 2
    /\ Len(requests) = 3
    /\ Len(a_yielded) = 3

\* every failed call has given one Err item; after a failed call the
\* synchronous iterator is not done and its next pull calls again
C25_Inv ==
    /\ Cardinality(ErrItems(yielded)) = Cardinality(Failures(requests))
    /\ Cardinality(ErrItems(a_yielded)) = Cardinality(Failures(a_requests))
    /\ (requests # <<>> /\ ~LastCall(requests).ok)
          => (/\ ~done
              /\ ENABLED (/\ SyncNext("ok")
                          /\ Len(requests') = Len(requests) + 1))

\* a failed call in the synchronous iterator yields the error and leaves
\* offset and done as they were, and the call after it has the same
\* offset; a failed call in the asynchronous stream yields the error and
\* ends the stream, which then yields and calls no more
C25_Step ==
    /\ (requests' # requests /\ ~LastCall(requests').ok)
          => (/\ yielded' = Append(yielded, Err("E"))
              /\ offset' = offset
              /\ done' = done)
    /\ (requests' # requests /\ requests # <<>> /\ ~LastCall(requests).ok)
          => LastCall(requests').offset = LastCall(requests).offset
    /\ (a_requests' # a_requests /\ ~LastCall(a_requests').ok)
          => (/\ a_yielded' = Append(a_yielded, Err("E"))
              /\ a_pc' = "ended")
    /\ a_pc = "ended"
          => (a_yielded' = a_yielded /\ a_requests' = a_requests)

\* C25: in the synchronous page iterator an error from the page function
\* is yielded as one Err item and leaves offset and done unchanged, so the
\* next pull repeats the request at the same offset; in the asynchronous
\* stream the first error is yielded and ends the stream.
C25_Errors ==
    /\ []C25_Inv
    /\ [][C25_Step]_vars

\* the synchronous iterator failed twice at offset 2 and then went on from
\* there; the asynchronous stream was ended by its first error
C25_Witness ==
    /\ \E k \in 1..(Len(requests) - 2) :
          /\ ~requests[k].ok /\ requests[k].offset = 2
          /\ ~requests[k + 1].ok /\ requests[k + 1].offset = 2
          /\ requests[k + 2].ok /\ requests[k + 2].offset = 2
          /\ requests[k + 2].returned > 0
    /\ a_pc = "ended"
    /\ a_requests # <<>>
    /\ ~LastCall(a_requests).ok
    /\ a_offset < total

====
